---------------------------- MODULE Spec2Model ----------------------------
(***************************************************************************)
(* Model of src/rust/src/main.rs: the universal-life pricing engine.       *)
(*                                                                         *)
(*   read_ia_py_csv / read_gen_rc_ia_py_csv / read_aa_csv  (rate series)   *)
(*   get_rates                                             (rate table)    *)
(*   at_issue_projection                                   (monthly loop)  *)
(*   solve_for_premium                                     (root search)   *)
(*                                                                         *)
(* Numbers.  An f64 amount of money is an integer count of grid units,     *)
(* Cent units to the cent (0.01) and HalfCent to the solver's tolerance    *)
(* (0.005).  A rate (a load, a factor, a COI or interest rate) is a        *)
(* fraction <<n, d>>.  Every product or quotient is rounded to the         *)
(* nearest grid unit, as an f64 operation rounds to the nearest            *)
(* representable value; a quotient too small for the grid rounds to 0,     *)
(* as an f64 quotient below the smallest subnormal does.  The amounts of   *)
(* the model stay far below the f64 range, so no infinity or NaN occurs.   *)
(***************************************************************************)
EXTENDS Integers, Sequences, FiniteSets

(***************************************************************************)
(* Bounds of the model.                                                    *)
(***************************************************************************)
\* log2 of the number of grid units in one cent
CentBits == 8
\* rows read from one data file before its end
MaxRows == 2
\* log2 of the modulus of the model's usize (the build's is 2^64, beyond the
\* integers of TLC; every modulus above 121 + 128 gives the same accesses)
UsizeBits == 16

Cent == 2 ^ CentBits
HalfCent == Cent \div 2
Dollar == 100 * Cent

(***************************************************************************)
(* f64 arithmetic on the grid.                                             *)
(***************************************************************************)
\* x / d rounded to the nearest integer, ties away from zero
RoundDiv(x, d) ==
    IF x >= 0 THEN (2 * x + d) \div (2 * d)
              ELSE -((2 * (-x) + d) \div (2 * d))

\* amount * rate, rate = <<n, d>>: the quotient a*n/d rounded to the grid
\* (a is split so that no intermediate product leaves 32 bits)
FMulPos(a, r) ==
    (a \div r[2]) * r[1] + RoundDiv((a % r[2]) * r[1], r[2])

FMul(a, r) == IF a >= 0 THEN FMulPos(a, r) ELSE -FMulPos(-a, r)

\* amount / c for a literal c (1000.0, 12.0, 100.0, 2.0)
FDiv(a, c) == RoundDiv(a, c)

\* rate / c for a literal c: exact
RDiv(r, c) == <<r[1], r[2] * c>>

\* f64::max
FMax(a, b) == IF a >= b THEN a ELSE b

\* (x * 100.0).round() / 100.0 : x to the nearest cent, ties away from zero
RoundToCent(x) == RoundDiv(x, Cent) * Cent

(***************************************************************************)
(* Rate tables: HashMap<&'static str, [f64; 121]>.                         *)
(***************************************************************************)
SeriesLen == 121
maturity_age == 121

Index == 0 .. (SeriesLen - 1)

\* [v; 121]
Filled(v) == [k \in Index |-> v]

\* the literals of get_rates, as fractions
PremiumLoadRate == <<6, 100>>
PolicyFee == 120 * Dollar
NaarDisc == <<9992, 10000>>
InterestRate == <<247, 100000>>
Zero == <<0, 1>>
One == <<1, 1>>

\* get_rates with the three data-driven series given
RateTable(unit_loads, corr_facts, coi_rates) ==
    [ premium_loads  |-> Filled(PremiumLoadRate),
      policy_fees    |-> Filled(PolicyFee),
      unit_loads     |-> unit_loads,
      corr_facts     |-> corr_facts,
      naar_discs     |-> Filled(NaarDisc),
      coi_rates      |-> coi_rates,
      interest_rates |-> Filled(InterestRate) ]

(***************************************************************************)
(* at_issue_projection: one month of the loop body.                        *)
(***************************************************************************)
\* a premium every six months
FirstMonth_Semiannual(m) == m % 6 = 0

\* (i % 12) == 0
FirstMonth(m) == m % 12 = 0

\* policy_year - 1, the index of every rate access of the month
YearIndex(py) == py - 1

\* line 112
premium_load(prem, rts, k) == FMul(prem, rts.premium_loads[k])

\* line 113
expense_charge(face, rts, k) ==
    FDiv(rts.policy_fees[k] + FDiv(FMul(face, rts.unit_loads[k]), 1000), 12)

\* the premium taken from the account value instead of paid into it
av_for_db_PremiumSubtracted(start_value, prem, load, expense) ==
    start_value - prem - load - expense

\* line 114
av_for_db(start_value, prem, load, expense) == start_value + prem - load - expense

\* line 115
db(face, av, rts, k) == FMax(face, FMul(av, rts.corr_facts[k]))

\* line 116
naar(benefit, av, rts, k) ==
    FMax(FMul(benefit, rts.naar_discs[k]) - FMax(av, 0), 0)

\* line 117
coi(risk, rts, k) == FMul(FDiv(risk, 1000), RDiv(rts.coi_rates[k], 12))

\* lines 118-120
credit_interest(av_for_interest, rts, k) ==
    av_for_interest + FMax(FMul(av_for_interest, rts.interest_rates[k]), 0)

\* lines 109-120: the month's policy_year, premium, index and end_value
Month(rts, face, ap, m, py, start_value) ==
    LET year == py + (IF FirstMonth(m) THEN 1 ELSE 0)
        k == YearIndex(year)
        prem == IF FirstMonth(m) THEN ap ELSE 0
        av == av_for_db(start_value, prem, premium_load(prem, rts, k),
                        expense_charge(face, rts, k))
        av_for_interest == av - coi(naar(db(face, av, rts, k), av, rts, k), rts, k)
    IN  [ policy_year |-> year,
          idx         |-> k,
          premium     |-> prem,
          end_value   |-> credit_interest(av_for_interest, rts, k) ]

\* 12 * i32::from(maturity_age - issue_age): the loop's upper end
Months(a) == 12 * (maturity_age - a)

RECURSIVE ProjectionLoop(_, _, _, _, _, _, _)
ProjectionLoop(rts, face, ap, m, n, py, ev) ==
    IF m >= n THEN ev
    ELSE LET s == Month(rts, face, ap, m, py, ev)
         IN  ProjectionLoop(rts, face, ap, m + 1, n, s.policy_year, s.end_value)

\* the value at_issue_projection returns
at_issue_projection(rts, a, face, ap) ==
    ProjectionLoop(rts, face, ap, 0, Months(a), 0, 0)

(***************************************************************************)
(* The rate tables solve_for_premium and at_issue_projection are called    *)
(* with, by name.  Their entries are non-negative.                         *)
(***************************************************************************)
\* a table whose seven series are constant over the durations
FlatTable(load, fee, unit_load, corr, disc, coi_rate, interest) ==
    [ premium_loads  |-> Filled(load),
      policy_fees    |-> Filled(fee),
      unit_loads     |-> Filled(unit_load),
      corr_facts     |-> Filled(corr),
      naar_discs     |-> Filled(disc),
      coi_rates      |-> Filled(coi_rate),
      interest_rates |-> Filled(interest) ]

Table(name) ==
    CASE name = "defaults" ->
           \* get_rates for a cohort no data row names
           RateTable(Filled(Zero), Filled(One), Filled(Zero))
      [] name = "cohort" ->
           \* get_rates for a cohort with unit loads, a corridor and COI rates
           \* that grow with the duration
           RateTable(Filled(<<1, 2>>),
                     [k \in Index |-> IF k = 0 THEN <<5, 2>> ELSE <<2, 1>>],
                     [k \in Index |-> IF k = 0 THEN <<12, 1>> ELSE <<24, 1>>])
      [] name = "free" ->
           \* no load, no fee, no COI, no interest
           FlatTable(Zero, 0, Zero, One, One, Zero, Zero)
      [] name = "small_fee" ->
           \* a policy fee of 3/8 cent a year and nothing else
           FlatTable(Zero, (3 * Cent) \div 8, Zero, One, One, Zero, Zero)
      [] name = "load_100" ->
           \* the whole premium is taken as load
           FlatTable(One, PolicyFee, Zero, One, NaarDisc, Zero, InterestRate)
      [] name = "load_150" ->
           \* the load exceeds the premium
           FlatTable(<<3, 2>>, PolicyFee, Zero, One, NaarDisc, Zero, InterestRate)
      [] name = "zigzag" ->
           \* a first year with a fee of 25/64 cent a month and a crediting
           \* rate of -200% a month, which turns a negative balance a into
           \* -a; later years take the whole premium as load and charge a
           \* fee of 5/256 cent a month
           [ premium_loads  |-> [k \in Index |-> IF k = 0 THEN Zero ELSE One],
             policy_fees    |-> [k \in Index |-> IF k = 0 THEN (75 * Cent) \div 16
                                                          ELSE (15 * Cent) \div 64],
             unit_loads     |-> Filled(Zero),
             corr_facts     |-> Filled(One),
             naar_discs     |-> Filled(One),
             coi_rates      |-> Filled(Zero),
             interest_rates |-> [k \in Index |-> IF k = 0 THEN <<-2, 1>> ELSE Zero] ]

(***************************************************************************)
(* The readers: one data file per run of get_rates is given rows, the      *)
(* other two have no row of the cohort and stay at their defaults.         *)
(***************************************************************************)
\* the cohort run() asks for (line 178)
ReqGender == "M"
ReqRiskClass == "NS"

Readers == {"ia_py", "gen_rc", "aa"}

\* the default get_rates passes to each reader (lines 164, 165, 167)
DefaultOf(rd) == IF rd = "aa" THEN One ELSE Zero

\* the rate a row of each file carries
RowRate(rd) == CASE rd = "ia_py"  -> <<1, 2>>
                 [] rd = "gen_rc" -> <<12, 1>>
                 [] rd = "aa"     -> <<5, 2>>

\* the i8 ages and durations of the rows
RowYears == {0, 1, 2, 121, 122}
RowAges(a) == {a, 35}
RowAttained == {0, 119, 120, 121, 122}

NoRecord == [gender |-> "", risk_class |-> "", issue_age |-> 0,
             policy_year |-> 0, attained_age |-> 0, rate |-> Zero]

\* IAPYRecord, GenRCIAPYRecord, AARecord: the rows a file may hold
Rows(rd, a) ==
    CASE rd = "ia_py" ->
           { [NoRecord EXCEPT !.issue_age = ia, !.policy_year = py, !.rate = RowRate(rd)] :
               ia \in RowAges(a), py \in RowYears }
      [] rd = "gen_rc" ->
           { [NoRecord EXCEPT !.gender = g, !.risk_class = rc, !.issue_age = ia,
                              !.policy_year = py, !.rate = RowRate(rd)] :
               g \in {"M", "F"}, rc \in {"NS", "SM"}, ia \in RowAges(a), py \in RowYears }
      [] rd = "aa" ->
           { [NoRecord EXCEPT !.attained_age = aa, !.rate = RowRate(rd)] :
               aa \in RowAttained }

\* `as usize` of an i8
AsUsize(v) == IF v >= 0 THEN v ELSE v + 2 ^ UsizeBits

\* the risk class of a row is not compared
Matches_AnyRiskClass(rd, rec, a) ==
    CASE rd = "ia_py"  -> rec.issue_age = a
      [] rd = "gen_rc" -> rec.gender = ReqGender /\ rec.issue_age = a
      [] rd = "aa"     -> rec.attained_age >= a

\* the if of lines 65, 80 and 95
Matches(rd, rec, a) ==
    CASE rd = "ia_py"  -> rec.issue_age = a
      [] rd = "gen_rc" -> rec.gender = ReqGender /\ rec.risk_class = ReqRiskClass
                          /\ rec.issue_age = a
      [] rd = "aa"     -> rec.attained_age >= a

\* the index written at lines 66, 81 and 96
WriteIndex(rd, rec, a) ==
    IF rd = "aa" THEN AsUsize(rec.attained_age - a)
                 ELSE AsUsize(rec.policy_year - 1)

\* get_rates: the table with the series the reader returned in its place
get_rates(rd, built) ==
    RateTable(IF rd = "ia_py" THEN built ELSE Filled(Zero),
              IF rd = "aa" THEN built ELSE Filled(One),
              IF rd = "gen_rc" THEN built ELSE Filled(Zero))

VARIABLES
    pc,              \* where the run is
    issue_age,       \* i8
    face_amount,     \* f64
    reader,          \* which read_*_csv runs
    series,          \* the reader's local `rates: [f64; 121]`
    record,          \* the row just deserialized
    rows,            \* history: the rows read so far
    idx,             \* the index of the last rate access
    annual_premium,  \* at_issue_projection's argument
    i,               \* its loop variable
    policy_year,
    premium,
    end_value,
    credited,        \* history: the months whose premium was the annual premium
    rates,           \* the name of the table solve_for_premium is called with
    guess_lo,
    guess_hi,
    guess_md,
    result,
    bisected,        \* history: the body of the bisection loop has run
    premium_1,       \* two premiums and their projections
    premium_2,
    value_1,
    value_2

vars == <<pc, issue_age, face_amount, reader, series, record, rows, idx,
          annual_premium, i, policy_year, premium, end_value, credited,
          rates, guess_lo, guess_hi, guess_md, result, bisected,
          premium_1, premium_2, value_1, value_2>>

engineVars == <<reader, series, record, rows, idx, annual_premium, i,
                policy_year, premium, end_value, credited>>

readerVars == <<reader, series, record, rows, idx, annual_premium, i,
                policy_year, premium, credited>>

solveVars == <<rates, guess_lo, guess_hi, guess_md, result, bisected>>

pairVars == <<premium_1, premium_2, value_1, value_2>>

\* the variables a specification does not use
NoReader ==
    /\ reader = "none"
    /\ series = <<>>
    /\ record = NoRecord
    /\ rows = {}
    /\ idx = 0
    /\ annual_premium = 0
    /\ i = 0
    /\ policy_year = 0
    /\ premium = 0
    /\ credited = 0

NoSolve ==
    /\ guess_lo = 0
    /\ guess_hi = 0
    /\ guess_md = 0
    /\ result = 0
    /\ bisected = FALSE

NoPair ==
    /\ premium_1 = 0
    /\ premium_2 = 0
    /\ value_1 = 0
    /\ value_2 = 0

(***************************************************************************)
(* Engine: a reader builds a series, get_rates puts it in the table,       *)
(* at_issue_projection runs month by month.                                *)
(***************************************************************************)
EngineAges == {0, 119, 120, 121, 127}

EngineInit ==
    /\ pc = "read"
    /\ issue_age \in EngineAges
    /\ face_amount = 100 * Dollar
    /\ reader \in Readers
    /\ series = Filled(DefaultOf(reader))
    /\ record = NoRecord
    /\ rows = {}
    /\ idx = 0
    /\ annual_premium = 130 * Dollar
    /\ i = 0
    /\ policy_year = 0
    /\ premium = 0
    /\ end_value = 0
    /\ credited = 0
    /\ rates = "defaults"
    /\ NoSolve
    /\ NoPair

\* one turn of the for loop of a reader (lines 63-68, 78-83, 93-98)
ReadRow ==
    /\ pc = "read"
    /\ Cardinality(rows) < MaxRows
    /\ \E rec \in Rows(reader, issue_age) \ rows :
         /\ record' = rec
         /\ rows' = rows \cup {rec}
         /\ IF Matches(reader, rec, issue_age)
              THEN /\ idx' = WriteIndex(reader, rec, issue_age)
                   /\ IF idx' \in DOMAIN series
                        THEN /\ series' = [series EXCEPT ![idx'] = rec.rate]
                             /\ pc' = "read"
                        ELSE /\ series' = series
                             /\ pc' = "panic"
              ELSE UNCHANGED <<idx, series, pc>>
    /\ UNCHANGED <<issue_age, face_amount, reader, annual_premium, i,
                   policy_year, premium, end_value, credited, solveVars, pairVars>>

\* File::open or a row's deserialization fails: `?` returns the error
ReadError ==
    /\ pc = "read"
    /\ pc' = "error"
    /\ UNCHANGED <<issue_age, face_amount, engineVars, solveVars, pairVars>>

\* the file ends: return Ok(rates)
EndOfFile ==
    /\ pc = "read"
    /\ pc' = "built"
    /\ UNCHANGED <<issue_age, face_amount, engineVars, solveVars, pairVars>>

\* at_issue_projection is entered with the table of get_rates (lines 103-106)
EnterProjection ==
    /\ pc = "built"
    /\ pc' = "project"
    /\ record' = NoRecord
    /\ rows' = {}
    /\ i' = 0
    /\ policy_year' = 0
    /\ end_value' = 0
    /\ UNCHANGED <<issue_age, face_amount, reader, series, idx, annual_premium,
                   premium, credited, solveVars, pairVars>>

\* one turn of the for loop of at_issue_projection (lines 108-121)
MonthStep ==
    /\ pc = "project"
    /\ i < Months(issue_age)
    /\ LET s == Month(get_rates(reader, series), face_amount, annual_premium,
                      i, policy_year, end_value)
       IN  /\ policy_year' = s.policy_year
           /\ idx' = s.idx
           /\ premium' = s.premium
           /\ end_value' = s.end_value
           /\ credited' = credited + (IF s.premium = annual_premium THEN 1 ELSE 0)
    /\ i' = i + 1
    /\ UNCHANGED <<pc, issue_age, face_amount, reader, series, record, rows,
                   annual_premium, solveVars, pairVars>>

\* the range is exhausted: return Ok(end_value) (line 123)
ReturnValue ==
    /\ pc = "project"
    /\ i >= Months(issue_age)
    /\ pc' = "returned"
    /\ UNCHANGED <<issue_age, face_amount, engineVars, solveVars, pairVars>>

EngineNext ==
    \/ ReadRow
    \/ ReadError
    \/ EndOfFile
    \/ EnterProjection
    \/ MonthStep
    \/ ReturnValue

EngineSpec == EngineInit /\ [][EngineNext]_vars

(***************************************************************************)
(* solve_for_premium.                                                      *)
(***************************************************************************)
SolveTables == {"defaults", "cohort", "free", "small_fee", "zigzag"}
SolveAges == {119, 120}
\* face amounts: the smallest positive amount, 0.25, 0.50, 1, 3 and 100
SolveFaces == {1, 25 * Cent, 50 * Cent, Dollar, 3 * Dollar, 100 * Dollar}

\* lines 128-130
SolveInit ==
    /\ pc = "bracket"
    /\ rates \in SolveTables
    /\ issue_age \in SolveAges
    /\ face_amount \in SolveFaces
    /\ guess_lo = 0
    /\ guess_hi = FDiv(face_amount, 100)
    /\ guess_md = 0
    /\ result = 0
    /\ end_value = 0
    /\ bisected = FALSE
    /\ NoReader
    /\ NoPair

\* the projection the solver evaluates at a guess
f(guess) == at_issue_projection(Table(rates), issue_age, face_amount, guess)

\* the branches of the bisection exchanged
Narrowed_Swapped(lo, md, hi, value) ==
    IF value <= 0 THEN <<lo, md>> ELSE <<md, hi>>

\* the bounds after one evaluation of the bisection (lines 146-150)
Narrowed(lo, md, hi, value) ==
    IF value <= 0 THEN <<md, hi>> ELSE <<lo, md>>

\* no adjustment, an adjustment in every case, an adjustment of two cents
Adjusted_Never(rounded, value) == rounded

Adjusted_Always(rounded, value) == rounded + Cent

Adjusted_TwoCents(rounded, value) ==
    IF value <= 0 THEN rounded + 2 * Cent ELSE rounded

\* line 155
Adjusted(rounded, value) ==
    IF value <= 0 THEN rounded + Cent ELSE rounded

\* one turn of the bracketing loop (lines 133-141)
Bracket ==
    /\ pc = "bracket"
    /\ end_value' = f(guess_hi)
    /\ IF end_value' <= 0
         THEN /\ guess_lo' = guess_hi
              /\ guess_hi' = FMul(guess_hi, <<2, 1>>)
              /\ pc' = "bracket"
         ELSE /\ pc' = "bisect"
              /\ UNCHANGED <<guess_lo, guess_hi>>
    /\ UNCHANGED <<rates, issue_age, face_amount, guess_md, result, bisected,
                   readerVars, pairVars>>

\* one test of the bisection loop, and its body (lines 143-151)
Bisect ==
    /\ pc = "bisect"
    /\ IF guess_hi - guess_lo > HalfCent
         THEN /\ guess_md' = FDiv(guess_lo + guess_hi, 2)
              /\ end_value' = f(guess_md')
              /\ guess_lo' = Narrowed(guess_lo, guess_md', guess_hi, end_value')[1]
              /\ guess_hi' = Narrowed(guess_lo, guess_md', guess_hi, end_value')[2]
              /\ bisected' = TRUE
              /\ pc' = "bisect"
         ELSE /\ pc' = "round"
              /\ UNCHANGED <<guess_lo, guess_hi, guess_md, end_value, bisected>>
    /\ UNCHANGED <<rates, issue_age, face_amount, result, readerVars, pairVars>>

\* rounding and the one-cent adjustment (lines 153-157)
Finish ==
    /\ pc = "round"
    /\ end_value' = f(RoundToCent(guess_md))
    /\ result' = Adjusted(RoundToCent(guess_md), end_value')
    /\ pc' = "done"
    /\ UNCHANGED <<rates, issue_age, face_amount, guess_lo, guess_hi, guess_md,
                   bisected, readerVars, pairVars>>

SolveNext ==
    \/ Bracket
    \/ Bisect
    \/ Finish

Spec == SolveInit /\ [][SolveNext]_vars

(***************************************************************************)
(* at_issue_projection as a function of the premium: two calls that        *)
(* differ in the premium only.                                             *)
(***************************************************************************)
PairTables == SolveTables \cup {"load_100", "load_150"}
PairFaces == {Dollar, 100 * Dollar}
PairPremiums == {0, Cent, Dollar, 100 * Dollar, 128 * Dollar, 200 * Dollar}

PairInit ==
    /\ pc = "call"
    /\ rates \in PairTables
    /\ issue_age \in SolveAges
    /\ face_amount \in PairFaces
    /\ premium_1 \in PairPremiums
    /\ premium_2 \in PairPremiums
    /\ premium_1 < premium_2
    /\ value_1 = 0
    /\ value_2 = 0
    /\ end_value = 0
    /\ NoReader
    /\ NoSolve

Project ==
    /\ pc = "call"
    /\ value_1' = at_issue_projection(Table(rates), issue_age, face_amount, premium_1)
    /\ value_2' = at_issue_projection(Table(rates), issue_age, face_amount, premium_2)
    /\ pc' = "returned"
    /\ UNCHANGED <<rates, issue_age, face_amount, premium_1, premium_2, end_value,
                   readerVars, guess_lo, guess_hi, guess_md, result, bisected>>

PairNext == Project

PairSpec == PairInit /\ [][PairNext]_vars

(***************************************************************************)
(* The claims.                                                             *)
(***************************************************************************)

\* the rate tables on which the projection is non-decreasing in the premium:
\* premium loads of at most 100%, no negative rate, and a COI charge on the
\* corridor's excess that does not exceed the account value
Regular(rts) ==
    \A k \in Index :
        /\ rts.premium_loads[k][1] >= 0
        /\ rts.premium_loads[k][1] <= rts.premium_loads[k][2]
        /\ rts.policy_fees[k] >= 0
        /\ rts.unit_loads[k][1] >= 0
        /\ rts.corr_facts[k][1] >= 0
        /\ rts.naar_discs[k][1] >= 0
        /\ rts.coi_rates[k][1] >= 0
        /\ rts.interest_rates[k][1] >= 0
        /\ (rts.corr_facts[k][1] * rts.naar_discs[k][1]
              - rts.corr_facts[k][2] * rts.naar_discs[k][2]) * rts.coi_rates[k][1]
           <= 12000 * rts.corr_facts[k][2] * rts.naar_discs[k][2] * rts.coi_rates[k][2]

\* C1 as stated: for every rate table the premium solve_for_premium returns
\* projects to a final account value >= 0, also when the bisection loop ran
\* zero times and when the one-cent adjustment was applied.
C1_PremiumSuffices ==
    pc = "done" => f(result) >= 0

\* C1 as amended: the same for every rate table that is Regular.
C1_SufficesRegular ==
    pc = "done" /\ Regular(Table(rates)) => f(result) >= 0

\* the loop ran zero times and the cent was added
C1_Witness ==
    pc = "done" /\ Regular(Table(rates)) /\ ~bisected /\ result = Cent

\* C2 as stated: one cent less than the returned premium projects to a
\* strictly negative final value.
C2_CentLessIsNegative ==
    pc = "done" => f(result - Cent) < 0

\* C2 as amended: the returned premium is the smallest whole-cent premium
\* whose final value is strictly positive: its projection is > 0 and the
\* projection of one cent less is <= 0 (a premium that projects to exactly
\* 0 is raised by a cent).
C2_SmallestPositive ==
    pc = "done" /\ Regular(Table(rates)) =>
        /\ result % Cent = 0
        /\ f(result) > 0
        /\ f(result - Cent) <= 0

\* a premium one cent above a premium that projects to exactly 0
C2_Witness ==
    pc = "done" /\ Regular(Table(rates)) /\ bisected /\ f(result - Cent) = 0

\* C3: every call of solve_for_premium completes: a turn of the bracketing
\* loop that does not end it raises guess_hi, and a turn of the bisection
\* loop moves the midpoint strictly inside the bracket, so that neither loop
\* can repeat a state for ever.
C3_Completes ==
    /\ pc = "bracket" /\ f(guess_hi) <= 0 =>
           FMul(guess_hi, <<2, 1>>) > guess_hi
    /\ pc = "bisect" /\ guess_hi - guess_lo > HalfCent =>
           /\ guess_lo < FDiv(guess_lo + guess_hi, 2)
           /\ FDiv(guess_lo + guess_hi, 2) < guess_hi

\* C4 as stated: for every rate table, a larger premium never projects to
\* a smaller final value.
C4_MonotoneEveryTable ==
    pc = "returned" => value_1 <= value_2

\* C4 as amended: the same for every rate table that is Regular.
C4_MonotoneRegular ==
    pc = "returned" /\ Regular(Table(rates)) => value_1 <= value_2

\* two premiums on a table with a corridor and COI rates, the larger one
\* projecting higher
C4_Witness ==
    pc = "returned" /\ rates = "cohort" /\ value_1 < value_2

\* C5: at_issue_projection never returns a value for an issue age of 121
\* or above.
C5_RejectsMaturedAge ==
    pc = "returned" => issue_age < 121

\* the rows the claims call matching, and the index each targets
RowOfCohort(rec) ==
    CASE reader = "ia_py"  -> rec.issue_age = issue_age
      [] reader = "gen_rc" -> rec.issue_age = issue_age /\ rec.gender = "M"
                              /\ rec.risk_class = "NS"
      [] reader = "aa"     -> rec.attained_age >= issue_age
      [] OTHER             -> FALSE

RowTarget(rec) ==
    IF reader = "aa" THEN rec.attained_age - issue_age ELSE rec.policy_year - 1

\* C6: a series under construction or built has 121 entries, every index no
\* matching row targets holds the default, and a row that does not match
\* leaves the series unchanged.
C6_DefaultFill ==
    /\ [](pc \in {"read", "built"} =>
            /\ DOMAIN series = 0 .. 120
            /\ \A k \in 0 .. 120 :
                 (\A r \in rows : ~(RowOfCohort(r) /\ RowTarget(r) = k))
                     => series[k] = (IF reader = "aa" THEN <<1, 1>> ELSE <<0, 1>>))
    /\ [][rows' # rows /\ ~RowOfCohort(record') => series' = series]_vars

\* a built series after a row of the cohort and a row of another cohort
C6_Witness ==
    /\ pc = "built"
    /\ reader = "gen_rc"
    /\ \E r \in rows : RowOfCohort(r)
    /\ \E r \in rows : ~RowOfCohort(r) /\ r.issue_age = issue_age
    /\ series # Filled(Zero)

\* the index of the projection's accesses in the month that just ran
ProjectionIndexInRange ==
    pc = "project" /\ i > 0 /\ issue_age \in 0 .. 120 =>
        idx = (i - 1) \div 12 /\ idx \in 0 .. 120

\* C7: every access of the projection is at an index in [0, 120],
\* and so is the write of every matching row whose ages and durations are
\* integers in 0..121.
C7_IndexInRange ==
    /\ ProjectionIndexInRange
    /\ ( /\ pc \in {"read", "panic"}
         /\ rows # {}
         /\ RowOfCohort(record)
         /\ issue_age \in 0 .. 121
         /\ record.policy_year \in 0 .. 121
         /\ record.attained_age \in 0 .. 121 )
       => idx \in 0 .. 120

\* C8: for an issue age a in 0..120 the projection runs 12 * (121 - a)
\* months, policy_year grows by one exactly in the months with i mod 12 = 0,
\* and the premium of a month is the annual premium in exactly those months
\* and 0 in the others, 121 - a times in all.
C8_MonthlySteps ==
    /\ [](pc = "returned" /\ issue_age \in 0 .. 120 =>
            /\ i = 12 * (121 - issue_age)
            /\ policy_year = 121 - issue_age
            /\ credited = 121 - issue_age)
    /\ [][pc = "project" /\ i' = i + 1 =>
            /\ policy_year' = policy_year + (IF i % 12 = 0 THEN 1 ELSE 0)
            /\ premium' = (IF i % 12 = 0 THEN annual_premium ELSE 0)]_vars

\* the one-year projection of issue age 120 has returned
C8_Witness ==
    pc = "returned" /\ issue_age = 120 /\ i = 12 /\ credited = 1

NearestCent(c, x) ==
    c % Cent = 0 /\ 2 * (x - c) <= Cent /\ 2 * (c - x) <= Cent

\* C10: a bracket no wider than 0.005 at the end of the bracketing phase
\* ends the bisection loop before its first turn, guess_md stays 0.0 and
\* the call returns 0.00 or 0.01; otherwise it returns the last midpoint
\* rounded to the cent, or that plus one cent.
C10_ReturnedPremium ==
    /\ [](pc = "done" =>
            /\ ~bisected => guess_md = 0 /\ result \in {0, Cent}
            /\ bisected => NearestCent(result, guess_md)
                           \/ NearestCent(result - Cent, guess_md))
    /\ [][pc = "bisect" /\ ~bisected /\ guess_hi - guess_lo <= HalfCent =>
            pc' = "round" /\ ~bisected']_vars

\* a doubled bracket away from 0 and no wider than 0.005: 0.01 is returned
C10_Witness ==
    pc = "done" /\ ~bisected /\ guess_lo > 0 /\ result = Cent

=============================================================================
